---------------------------- MODULE Spec2Model ----------------------------
(***************************************************************************)
(* Model of the two Scryfall scripts of the repository:                    *)
(*   notes/fetch_cards_by_name.py  (read_names, chunked, fetch_batch,       *)
(*                                  fetch_all, main)                        *)
(*   notes/scryfall.py             (stream_cards)                           *)
(* A run executes one of the two scripts (variable prog).  Every HTTP       *)
(* request is one step; the provider's answer is chosen by the environment. *)
(* Strings are sequences of code points, so that str.lower, str.split,      *)
(* str.strip, str.startswith and the sort key are computed, not assumed.    *)
(***************************************************************************)
EXTENDS Integers, Sequences, FiniteSets, TLC

(***************************************************************************)
(* Bounds of the model.                                                     *)
(***************************************************************************)
\* Number of lines of an input file without padding lines.
MaxLines == 2
\* Number of lines that precede the padding lines of a long input file.
MaxPaddedLines == 1
\* Number of card-name lines of the input file in the runs in which the
\* network is allowed to fail or the provider to answer with an error status.
MaxFaultyLines == 1
\* Number of result pages the search provider serves.
MaxPages == 3
\* Number of result pages in the runs in which the network is allowed to fail
\* or the provider to answer with an error status; the pages of these runs
\* hold at most one record.
MaxFaultyPages == 2
\* Number of records on one result page.
MaxPageSize == 2
\* How often the environment lets a page-fetch attempt loop of stream_cards
\* run out without a decoded page while an older page is still bound.
MaxStale == 1

(***************************************************************************)
(* Program constants.                                                       *)
(***************************************************************************)
\* BATCH_LIMIT = 75
BATCH_LIMIT == 75
\* fetch_batch(..., retries: int = 4, ...)
\* One attempt fewer than fetch_batch's default
FewerRetries == 4 - 1

retries == 4
\* stream_cards: for attempt in range(5)
STREAM_ATTEMPTS == 5
\* stream_cards: if attempt == 4: raise
STREAM_LAST_ATTEMPT == 4
\* API_SEARCH and API_COLLECTION
API_SEARCH == "https://api.scryfall.com/cards/search"
API_COLLECTION == "https://api.scryfall.com/cards/collection"

(***************************************************************************)
(* Strings as sequences of code points.                                     *)
(***************************************************************************)
\* The separator " // " of composite names.
SEP == <<32, 47, 47, 32>>

\* str.lower (on the ASCII letters; the other code points used have no case)
Lower(s) == [i \in 1..Len(s) |-> IF s[i] \in 65..90 THEN s[i] + 32 ELSE s[i]]

\* Whitespace removed by str.strip
IsSpace(c) == c \in {9, 10, 11, 12, 13, 32}

\* s.startswith(p)
StartsWith(s, p) == Len(p) <= Len(s) /\ SubSeq(s, 1, Len(p)) = p

\* Index of the first occurrence of sub in s, 0 when there is none (str.find + 1)
Find(s, sub) ==
  LET hits == {i \in 1..(Len(s) - Len(sub) + 1) : SubSeq(s, i, i + Len(sub) - 1) = sub}
  IN  IF hits = {} THEN 0 ELSE CHOOSE i \in hits : \A j \in hits : i <= j

\* " // " in s
HasSep(s) == Find(s, SEP) # 0

\* s.split(" // ", 1)[0]
SplitFirst(s) == IF HasSep(s) THEN SubSeq(s, 1, Find(s, SEP) - 1) ELSE s

\* s.strip()
Strip(s) ==
  LET keep == {i \in 1..Len(s) : ~IsSpace(s[i])}
  IN  IF keep = {} THEN <<>>
      ELSE SubSeq(s, CHOOSE i \in keep : \A j \in keep : i <= j,
                     CHOOSE i \in keep : \A j \in keep : j <= i)

\* Python's order of two strings: a < b
StrLess(a, b) ==
  \E k \in 1..(Len(a) + 1) :
    /\ k <= Len(b)
    /\ \A j \in 1..(k - 1) : a[j] = b[j]
    /\ (k = Len(a) + 1 \/ a[k] < b[k])

\* key=str.lower: a sorts strictly before b
KeyLess(a, b) == StrLess(Lower(a), Lower(b))

\* The elements of a sequence
Range(s) == {s[i] : i \in 1..Len(s)}

\* The two halves of a list: loops over a list are unfolded half by half
FirstHalf(list) == SubSeq(list, 1, Len(list) \div 2)
SecondHalf(list) == SubSeq(list, Len(list) \div 2 + 1, Len(list))

\* TRUE; evaluating it computes v, so that the result of the first half of a
\* loop is a value before the second half is unfolded
Computed(v) == v = v

\* Stable insertion of x into a list sorted by key=str.lower, after its equals
InsertByKey(sorted, x) ==
  LET p == Cardinality({i \in 1..Len(sorted) : ~KeyLess(x, sorted[i])})
  IN  SubSeq(sorted, 1, p) \o <<x>> \o SubSeq(sorted, p + 1, Len(sorted))

RECURSIVE SortInto(_, _)
\* The elements of list inserted one after the other into the sorted list acc
SortInto(acc, list) ==
  IF list = <<>> THEN acc
  ELSE IF Len(list) = 1 THEN InsertByKey(acc, list[1])
  ELSE LET first == SortInto(acc, FirstHalf(list))
       IN  IF Computed(first) THEN SortInto(first, SecondHalf(list)) ELSE first

\* sorted(list, key=str.lower): stable
SortedByLower(list) == SortInto(<<>>, list)

\* sorted(set, key=str.lower): the iteration order of a set of strings is not
\* fixed by the language, so names with equal keys come out in either order
SortedSetByLower(S) ==
  {q \in [1..Cardinality(S) -> S] :
     /\ Range(q) = S
     /\ \A i \in 1..(Cardinality(S) - 1) : ~KeyLess(q[i + 1], q[i])}

(***************************************************************************)
(* Inputs: the lines of the names file.                                     *)
(***************************************************************************)
\* "A // B", "a // b", "A" and "Z", the card names used in input files
NameAB == <<65, 32, 47, 47, 32, 66>>
NameAbLower == <<97, 32, 47, 47, 32, 98>>
NameAC == <<65, 32, 47, 47, 32, 67>>
NameA == <<65>>
NameZ == <<90>>

\* Padding names: one code point without case and without separator
PadName(i) == <<19968 + i>>
IsPad(n) == Len(n) = 1 /\ n[1] > 19968

\* The lines an input file is made of: names with their newline, a blank
\* line and a comment line
LineUniverse ==
  {NameAB \o <<10>>, NameAbLower \o <<10>>, <<32>> \o NameA \o <<10>>,
   NameZ \o <<10>>, <<10>>, <<35, 65, 10>>}

\* How many padding lines a long input file ends with: with the lines before
\* them, the file holds about one, two or three batches of names
PadCounts == {BATCH_LIMIT - 1, BATCH_LIMIT, 2 * BATCH_LIMIT}

SeqUpTo(S, n) == UNION {[1..k -> S] : k \in 0..n}

\* The short input files, and the long ones: a few lines and the padding
InputFiles ==
  SeqUpTo(LineUniverse, MaxLines)
  \cup {body \o [i \in 1..p |-> PadName(i) \o <<10>>] :
          body \in SeqUpTo(LineUniverse, MaxPaddedLines), p \in PadCounts}

\* The input files of the runs with an unreliable network
FaultyInputFiles == SeqUpTo(LineUniverse, MaxFaultyLines)

\* read_names, lines 50-55: one line of the file, acc being names so far
ReadLine(acc, line) ==
  LET raw == Strip(line)
  IN  IF raw = <<>> \/ StartsWith(raw, <<35>>) THEN acc
      ELSE IF raw \notin Range(acc) THEN Append(acc, raw)
      ELSE acc

RECURSIVE ReadLines(_, _)
\* read_names: the loop over the lines
ReadLines(acc, lns) ==
  IF lns = <<>> THEN acc
  ELSE IF Len(lns) = 1 THEN ReadLine(acc, lns[1])
  ELSE LET first == ReadLines(acc, FirstHalf(lns))
       IN  IF Computed(first) THEN ReadLines(first, SecondHalf(lns)) ELSE first

read_names(lns) == ReadLines(<<>>, lns)

\* seq[i : i + size] for the 0-based start i of a slice
\* A slice that loses the last element of a full slice
ShortSlice(seq, i, size) ==
  SubSeq(seq, i + 1, IF i + size < Len(seq) THEN i + size - 1 ELSE Len(seq))

Slice(seq, i, size) ==
  SubSeq(seq, i + 1, IF i + size < Len(seq) THEN i + size ELSE Len(seq))

\* range(0, len(seq), size)
ChunkStarts(seq, size) == {i \in 0..(Len(seq) - 1) : i % size = 0}

\* The slices from the last to the first
ChunkedBackwards(seq, size) ==
  LET n == Cardinality(ChunkStarts(seq, size))
  IN  [k \in 1..n |-> Slice(seq, (n - k) * size, size)]

\* chunked(seq, size) as the list of the slices it yields
chunked(seq, size) ==
  LET n == Cardinality(ChunkStarts(seq, size))
  IN  [k \in 1..n |-> Slice(seq, (k - 1) * size, size)]

(***************************************************************************)
(* The provider of the collection endpoint.                                 *)
(***************************************************************************)
CardAB == [id |-> 1, name |-> NameAB]
CardAC == [id |-> 2, name |-> NameAC]
CardA == [id |-> 3, name |-> NameA]
PadCard(n) == [id |-> n[1], name |-> n]
NoCard == [id |-> 0, name |-> <<>>]

Catalog == {CardAB, CardAC, CardA}

\* The provider matches an identifier with a card of that name, compared
\* without case, or with a two-faced card whose front face has that name
Matches(card, ident) ==
  \/ Lower(card.name) = Lower(ident)
  \/ StartsWith(Lower(card.name), Lower(ident) \o SEP)

\* What the provider may answer for one identifier: a matching card, or not
\* found.  Padding names are always found.
Options(ident) ==
  IF IsPad(ident) THEN {[found |-> TRUE, card |-> PadCard(ident)]}
  ELSE {[found |-> TRUE, card |-> c] : c \in {k \in Catalog : Matches(k, ident)}}
       \cup {[found |-> FALSE, card |-> NoCard]}

EmptyBody == [data |-> <<>>, not_found |-> <<>>]

RECURSIVE Bodies(_)
\* The decoded bodies of a 200 response to a request for the identifiers ids:
\* data holds the cards found and not_found the names not found, in order
Bodies(ids) ==
  IF ids = <<>> THEN {EmptyBody}
  ELSE IF Len(ids) = 1
    THEN {IF o.found THEN [data |-> <<o.card>>, not_found |-> <<>>]
                     ELSE [data |-> <<>>, not_found |-> ids] : o \in Options(ids[1])}
  ELSE {[data |-> a.data \o b.data, not_found |-> a.not_found \o b.not_found] :
          a \in Bodies(FirstHalf(ids)), b \in Bodies(SecondHalf(ids))}

\* Statuses >= 400 other than 429 that the provider answers with
ErrorStatuses == {404, 500}

\* The Retry-After header of a 429 response: absent, "0", "2", "-1", "x"
RetryAfterHeaders ==
  {[present |-> FALSE, value |-> <<>>], [present |-> TRUE, value |-> <<48>>],
   [present |-> TRUE, value |-> <<50>>], [present |-> TRUE, value |-> <<45, 49>>],
   [present |-> TRUE, value |-> <<120>>]}

\* resp.headers.get("Retry-After", "1")
HeaderText(h) == IF h.present THEN h.value ELSE <<49>>

\* Whether int(s) succeeds: an optional sign and decimal digits
IsInt(s) ==
  LET digits == IF s # <<>> /\ s[1] \in {43, 45} THEN Tail(s) ELSE s
  IN  digits # <<>> /\ \A i \in 1..Len(digits) : digits[i] \in 48..57

RECURSIVE DigitsValue(_)
DigitsValue(d) ==
  IF d = <<>> THEN 0 ELSE 10 * DigitsValue(SubSeq(d, 1, Len(d) - 1)) + (d[Len(d)] - 48)

\* int(s) for a string that parses
ParseInt(s) ==
  IF s[1] = 45 THEN 0 - DigitsValue(Tail(s))
  ELSE IF s[1] = 43 THEN DigitsValue(Tail(s))
  ELSE DigitsValue(s)

\* max(1, retry_after) seconds, in milliseconds
RateLimitPause(h) ==
  LET v == ParseInt(HeaderText(h)) IN 1000 * (IF v > 1 THEN v ELSE 1)

\* backoff_base ** attempt seconds with backoff_base = 1.5, in milliseconds
BatchBackoff(a) == (1000 * 15 ^ a) \div (10 ^ a)

\* 2 ** attempt seconds, in milliseconds
StreamBackoff(a) == 1000 * 2 ^ a

(***************************************************************************)
(* fetch_all and main: the pure parts.                                      *)
(***************************************************************************)
\* results[card_name] = card on a dict kept as the list of its values in
\* insertion order: an existing key keeps its place
Put(res, card) ==
  IF \E i \in 1..Len(res) : res[i].name = card.name
    THEN [i \in 1..Len(res) |-> IF res[i].name = card.name THEN card ELSE res[i]]
    ELSE Append(res, card)

RECURSIVE MergeCards(_, _)
\* for card in data.get("data", []): if card_name: results[card_name] = card
MergeCards(res, cards) ==
  IF cards = <<>> THEN res
  ELSE IF Len(cards) = 1
    THEN IF cards[1].name # <<>> THEN Put(res, cards[1]) ELSE res
  ELSE LET first == MergeCards(res, FirstHalf(cards))
       IN  IF Computed(first) THEN MergeCards(first, SecondHalf(cards)) ELSE first

\* The text after the first " // " of s
BackFace(s) == SubSeq(s, Find(s, SEP) + Len(SEP), Len(s))

\* The stripped back faces of the composite names among nf, in order
BackFaces(nf) ==
  LET composite == SelectSeq(nf, HasSep)
  IN  [i \in 1..Len(composite) |-> Strip(BackFace(composite[i]))]

RECURSIVE FrontFaces(_)
\* front_face_retry: the stripped, non-empty front faces of the composite
\* names among nf_names, in order
FrontFaces(nf) ==
  IF nf = <<>> THEN <<>>
  ELSE IF Len(nf) = 1
    THEN LET front == Strip(SplitFirst(nf[1]))
         IN  IF HasSep(nf[1]) /\ front # <<>> THEN <<front>> ELSE <<>>
  ELSE FrontFaces(FirstHalf(nf)) \o FrontFaces(SecondHalf(nf))

\* results_lower = {n.lower() for n in results.keys()}
ResultsLower(res) == {Lower(res[i].name) : i \in 1..Len(res)}

\* resolved_this_batch after the front-face retries of a batch
ResolvedThisBatch(nf, res) == {n \in Range(nf) : Lower(n) \in ResultsLower(res)}

\* unresolved after a batch: unresolved.update(still_missing)
\* An update that forgets the names still missing
UpdateNothing(unres, nf, resolved) == unres

UpdateUnresolved(unres, nf, resolved) == unres \cup {n \in Range(nf) : n \notin resolved}

\* lower_map[k.lower()] = v on a dict kept as the list of its items in
\* insertion order
PutLower(acc, card) ==
  LET k == Lower(card.name)
      item == [key |-> k, card |-> card]
  IN  IF \E i \in 1..Len(acc) : acc[i].key = k
        THEN [i \in 1..Len(acc) |-> IF acc[i].key = k THEN item ELSE acc[i]]
        ELSE Append(acc, item)

RECURSIVE LowerMapFrom(_, _)
\* lower_map = {k.lower(): v for k, v in cards.items()}
LowerMapFrom(acc, res) ==
  IF res = <<>> THEN acc
  ELSE IF Len(res) = 1 THEN PutLower(acc, res[1])
  ELSE LET first == LowerMapFrom(acc, FirstHalf(res))
       IN  IF Computed(first) THEN LowerMapFrom(first, SecondHalf(res)) ELSE first

LowerMap(res) == LowerMapFrom(<<>>, res)

\* resolve_input_name(inp): the card found, or None (found = FALSE)
resolve_input_name(inp, lower_map) ==
  LET lk == Lower(inp)
      exact == {i \in 1..Len(lower_map) : lower_map[i].key = lk}
      front == SplitFirst(lk)
      byFront == {i \in 1..Len(lower_map) : StartsWith(lower_map[i].key, front \o SEP)}
  IN  IF exact # {}
        THEN [found |-> TRUE, card |-> lower_map[CHOOSE i \in exact : TRUE].card]
      ELSE IF HasSep(lk) /\ byFront # {}
        THEN [found |-> TRUE,
              card |-> lower_map[CHOOSE i \in byFront : \A j \in byFront : i <= j].card]
      ELSE [found |-> FALSE, card |-> NoCard]

\* input_sequence = names if args.sort == "input" else sorted(cards.keys(), key=str.lower)
input_sequence(nms, res, srt) ==
  IF srt = "input" THEN nms
  ELSE SortedByLower([i \in 1..Len(res) |-> res[i].name])

\* main, lines 202-210: one pass of the loop for the name original; acc holds
\* ordered_cards, seen_ids and mapped_names
ReassembleOne(acc, original, lower_map) ==
  LET r == resolve_input_name(original, lower_map)
      cid == r.card.id
  IN  IF ~r.found THEN acc
      ELSE IF cid # 0 /\ cid \in acc.seen_ids
        THEN [acc EXCEPT !.mapped_names = @ \cup {original}]
      ELSE [ordered_cards |-> Append(acc.ordered_cards, r.card),
            seen_ids |-> IF cid # 0 THEN acc.seen_ids \cup {cid} ELSE acc.seen_ids,
            mapped_names |-> acc.mapped_names \cup {original}]

RECURSIVE Reassemble(_, _, _)
\* main, lines 201-210: the loop over input_sequence
Reassemble(acc, seq, lower_map) ==
  IF seq = <<>> THEN acc
  ELSE IF Len(seq) = 1 THEN ReassembleOne(acc, seq[1], lower_map)
  ELSE LET first == Reassemble(acc, FirstHalf(seq), lower_map)
       IN  IF Computed(first) THEN Reassemble(first, SecondHalf(seq), lower_map)
           ELSE first

RECURSIVE DedupKeepOrder(_, _)
\* main, lines 222-225: the names of a list, each once, in order
DedupKeepOrder(acc, list) ==
  IF list = <<>> THEN acc
  ELSE IF Len(list) = 1
    THEN IF list[1] \in Range(acc) THEN acc ELSE Append(acc, list[1])
  ELSE LET first == DedupKeepOrder(acc, FirstHalf(list))
       IN  IF Computed(first) THEN DedupKeepOrder(first, SecondHalf(list)) ELSE first

\* ordering_unresolved = [n for n in names if n not in mapped_names]
OrderingUnresolved(nms, mapped) ==
  LET missing(n) == n \notin mapped IN SelectSeq(nms, missing)

(***************************************************************************)
(* State.                                                                   *)
(***************************************************************************)
VARIABLES
  prog,          \* the script that runs: "fetch" or "stream"
  network,       \* "reliable": every request is answered with status 200;
                 \* "faulty": requests may fail or be answered 429 or >= 400
  pc,            \* where the control of the script is
  exit_status,   \* the exit status of the process, -1 while it runs
  err,           \* the exception that ended the script, "none" without one
  \* fetch_cards_by_name.py: main and fetch_all
  lines,         \* the lines of the input file not read yet
  names,         \* names = read_names(args.input)
  sort,          \* args.sort
  results,       \* results, the values of the dict in insertion order
  unresolved,    \* unresolved
  batch_idx,     \* batch_idx
  nf_names,      \* nf_names of the current batch
  retry_set,     \* retry_set of the current batch
  sub_idx,       \* position in chunked(retry_set, BATCH_LIMIT), from 1
  sent,          \* the calls of fetch_batch so far, with their identifiers
  hit,           \* the identifiers, in lower case, the provider answered with a card
  missed,        \* the identifiers, in lower case, the provider reported not found
  retry_keyed,   \* the composite names reported not found whose own name was
                 \* a key of results after the retries of their batch
  ordered_cards, mapped_names, unresolved_names, combined_unresolved,
  \* one call of fetch_batch, or one page fetch of stream_cards
  caller,        \* "primary" or "retry": the call site of fetch_batch
  payload,       \* the identifiers of the payload
  attempt,       \* attempt
  reqs,          \* HTTP requests issued in this call or page fetch
  resp,          \* the last response received: status (0: none) and body
  rate_seen,     \* 429 responses received in this call
  net_seen,      \* network failures met in this call
  err_seen,      \* responses with another status >= 400 received in this call
  slept,         \* the last time.sleep of this call, in milliseconds
  data,          \* what fetch_batch returned
  \* scryfall.py: stream_cards
  pages,         \* the pages the provider serves for the search
  url,           \* url ("" is None)
  page,          \* page
  page_bound,    \* whether the local variable page is bound
  yielded,       \* the records yielded so far
  fetched,       \* the page fetches so far: the URL and whether params went along
  stale_rounds   \* attempt loops that ran out with page bound to an older page

inputVars == <<lines, names, sort>>
fetchAllVars ==
  <<results, unresolved, batch_idx, nf_names, retry_set, sub_idx, retry_keyed>>
mainVars == <<ordered_cards, mapped_names, unresolved_names, combined_unresolved>>
seenVars == <<reqs, rate_seen, net_seen, err_seen>>
streamVars == <<pages, url, page, page_bound, yielded, fetched, stale_rounds>>
providerVars == <<hit, missed>>

vars ==
  <<prog, network, pc, exit_status, err, lines, names, sort, results, unresolved, batch_idx,
    nf_names, retry_set, sub_idx, sent, retry_keyed, ordered_cards, mapped_names,
    unresolved_names, combined_unresolved, caller, payload, attempt, resp,
    reqs, rate_seen, net_seen, err_seen, slept, data, pages, url, page, page_bound,
    yielded, fetched, stale_rounds, hit, missed>>

NoResp == [status |-> 0, body |-> EmptyBody]
EmptyPage == [data |-> <<>>, has_more |-> FALSE, next_page |-> ""]

\* The script has not started a request
CallIdle ==
  /\ caller = "none" /\ payload = <<>> /\ attempt = 0 /\ resp = NoResp
  /\ reqs = 0 /\ rate_seen = 0 /\ net_seen = 0 /\ err_seen = 0 /\ slept = 0 /\ data = EmptyBody

\* The state of a call is dropped once its result has been used
CallReset ==
  /\ caller' = "none" /\ payload' = <<>> /\ attempt' = 0 /\ resp' = NoResp
  /\ reqs' = 0 /\ rate_seen' = 0 /\ net_seen' = 0 /\ err_seen' = 0 /\ slept' = 0
  /\ data' = EmptyBody

InitFetch ==
  /\ prog = "fetch" /\ pc = "main" /\ exit_status = -1 /\ err = "none"
  /\ \/ network = "reliable" /\ lines \in InputFiles
     \/ network = "faulty" /\ lines \in FaultyInputFiles
  /\ names = <<>>
  /\ sort \in {"input", "alpha"}
  /\ results = <<>> /\ unresolved = {} /\ batch_idx = 0
  /\ nf_names = <<>> /\ retry_set = <<>> /\ sub_idx = 0 /\ sent = <<>>
  /\ retry_keyed = {} /\ hit = {} /\ missed = {}
  /\ ordered_cards = <<>> /\ mapped_names = {}
  /\ unresolved_names = <<>> /\ combined_unresolved = <<>>
  /\ CallIdle
  /\ pages = <<>> /\ url = "" /\ page = EmptyPage /\ page_bound = FALSE
  /\ yielded = <<>> /\ fetched = <<>> /\ stale_rounds = 0

(***************************************************************************)
(* fetch_cards_by_name.py: main up to the call of fetch_all.                *)
(***************************************************************************)
\* main, lines 172-180: names = read_names(args.input); return 0 without names
ReadNames ==
  /\ prog = "fetch" /\ pc = "main"
  /\ names' = read_names(lines)
  /\ lines' = <<>>
  /\ IF names' = <<>>
       THEN pc' = "done" /\ exit_status' = 0 /\ batch_idx' = batch_idx
       ELSE pc' = "batch" /\ exit_status' = exit_status /\ batch_idx' = 1
  /\ UNCHANGED <<providerVars, prog, network, err, sort, results, unresolved, nf_names, retry_set, sub_idx,
                 sent, retry_keyed, mainVars, caller, payload, attempt, resp, seenVars, slept,
                 data, streamVars>>

\* fetch_all, lines 102-104: the next batch is sent with fetch_batch
StartBatch ==
  /\ prog = "fetch" /\ pc = "batch"
  /\ batch_idx <= Len(chunked(names, BATCH_LIMIT))
  /\ caller' = "primary"
  /\ payload' = chunked(names, BATCH_LIMIT)[batch_idx]
  /\ sent' = Append(sent, [kind |-> "primary", batch |-> batch_idx, ids |-> payload'])
  /\ attempt' = 0
  /\ pc' = "post"
  /\ UNCHANGED <<providerVars, prog, network, exit_status, err, inputVars, fetchAllVars, mainVars, resp,
                 seenVars, slept, data, streamVars>>

(***************************************************************************)
(* fetch_batch: one HTTP POST per step.                                     *)
(***************************************************************************)
\* lines 86-91: except requests.RequestException
BatchOnRequestException ==
  IF attempt = retries
    THEN /\ pc' = "exit" /\ exit_status' = 3
         /\ UNCHANGED <<attempt, slept>>
    ELSE /\ slept' = BatchBackoff(attempt)
         /\ attempt' = attempt + 1
         /\ UNCHANGED <<pc, exit_status>>

\* lines 71-75: the response has status 429
Post429 ==
  /\ prog = "fetch" /\ pc = "post" /\ network = "faulty"
  /\ resp' = [status |-> 429, body |-> EmptyBody]
  /\ reqs' = reqs + 1
  /\ rate_seen' = rate_seen + 1
  /\ \E h \in RetryAfterHeaders :
       IF ~IsInt(HeaderText(h))
         THEN \* int() raises ValueError, which no handler catches
              /\ pc' = "crashed" /\ err' = "ValueError" /\ exit_status' = 1
              /\ UNCHANGED <<attempt, slept>>
         ELSE /\ slept' = RateLimitPause(h)
              /\ IF attempt = retries
                   THEN \* continue ends the loop: line 92
                        /\ pc' = "crashed" /\ err' = "RuntimeError"
                        /\ exit_status' = 1
                        /\ attempt' = attempt
                   ELSE /\ attempt' = attempt + 1
                        /\ UNCHANGED <<pc, err, exit_status>>
  /\ UNCHANGED <<providerVars, prog, network, inputVars, fetchAllVars, sent, mainVars, caller,
                 payload, net_seen, err_seen, data, streamVars>>

\* lines 76-84 and 86-91: a status >= 400 other than 429; raise_for_status
\* raises HTTPError, a RequestException
PostError ==
  /\ prog = "fetch" /\ pc = "post" /\ network = "faulty"
  /\ \E st \in ErrorStatuses : resp' = [status |-> st, body |-> EmptyBody]
  /\ reqs' = reqs + 1
  /\ err_seen' = err_seen + 1
  /\ BatchOnRequestException
  /\ UNCHANGED <<providerVars, prog, network, err, inputVars, fetchAllVars, sent, mainVars, caller, payload,
                 rate_seen, net_seen, data, streamVars>>

\* lines 71 and 86-91: session.post raises a RequestException
PostNetFail ==
  /\ prog = "fetch" /\ pc = "post" /\ network = "faulty"
  /\ resp' = [status |-> -1, body |-> EmptyBody]
  /\ reqs' = reqs + 1
  /\ net_seen' = net_seen + 1
  /\ BatchOnRequestException
  /\ UNCHANGED <<providerVars, prog, network, err, inputVars, fetchAllVars, sent, mainVars, caller, payload,
                 rate_seen, err_seen, data, streamVars>>

\* lines 71-85: a status below 400; return resp.json()
PostOk ==
  /\ prog = "fetch" /\ pc = "post"
  /\ \E body \in Bodies(payload) :
       /\ resp' = [status |-> 200, body |-> body]
       /\ data' = body
       /\ missed' = missed \cup {Lower(n) : n \in Range(body.not_found)}
       /\ hit' = hit \cup {Lower(n) : n \in {m \in Range(payload) :
                                               ~IsPad(m) /\ m \notin Range(body.not_found)}}
  /\ reqs' = reqs + 1
  /\ pc' = "returned"
  /\ UNCHANGED <<prog, network, exit_status, err, inputVars, fetchAllVars, sent, mainVars,
                 caller, payload, attempt, rate_seen, net_seen, err_seen, slept,
                 streamVars>>

(***************************************************************************)
(* fetch_all: what follows each call of fetch_batch.                        *)
(***************************************************************************)
\* lines 105-120 (and 134-138 for a batch without front-face retry): the
\* answer to the primary request of a batch
MergePrimary ==
  /\ prog = "fetch" /\ pc = "returned" /\ caller = "primary"
  /\ results' = MergeCards(results, data.data)
  /\ LET nf == data.not_found
         front_face_retry == FrontFaces(nf)
     IN  IF nf = <<>>
           THEN /\ pc' = "batch" /\ batch_idx' = batch_idx + 1
                /\ UNCHANGED <<unresolved, nf_names, retry_set, sub_idx>>
         ELSE IF front_face_retry = <<>>
           THEN /\ unresolved' = UpdateUnresolved(unresolved, nf, {})
                /\ pc' = "batch" /\ batch_idx' = batch_idx + 1
                /\ UNCHANGED <<nf_names, retry_set, sub_idx>>
         ELSE /\ nf_names' = nf
              /\ retry_set' \in SortedSetByLower(Range(front_face_retry))
              /\ sub_idx' = 1
              /\ pc' = "retry"
              /\ UNCHANGED <<unresolved, batch_idx>>
  /\ CallReset
  /\ UNCHANGED <<providerVars, prog, network, exit_status, err, inputVars, sent, retry_keyed, mainVars,
                 streamVars>>

\* lines 123-124: the next slice of retry_set is sent with fetch_batch
StartRetry ==
  /\ prog = "fetch" /\ pc = "retry"
  /\ sub_idx <= Len(chunked(retry_set, BATCH_LIMIT))
  /\ caller' = "retry"
  /\ payload' = chunked(retry_set, BATCH_LIMIT)[sub_idx]
  /\ sent' = Append(sent, [kind |-> "retry", batch |-> batch_idx, ids |-> payload'])
  /\ attempt' = 0
  /\ pc' = "post"
  /\ UNCHANGED <<providerVars, prog, network, exit_status, err, inputVars, fetchAllVars, mainVars, resp,
                 seenVars, slept, data, streamVars>>

\* lines 125-128: the answer to a front-face retry request
MergeRetry ==
  /\ prog = "fetch" /\ pc = "returned" /\ caller = "retry"
  /\ results' = MergeCards(results, data.data)
  /\ sub_idx' = sub_idx + 1
  /\ pc' = "retry"
  /\ CallReset
  /\ UNCHANGED <<providerVars, prog, network, exit_status, err, inputVars, unresolved, batch_idx, nf_names,
                 retry_set, sent, retry_keyed, mainVars, streamVars>>

\* lines 129-138: after the last retry request of a batch
FinishRetry ==
  /\ prog = "fetch" /\ pc = "retry"
  /\ sub_idx > Len(chunked(retry_set, BATCH_LIMIT))
  /\ unresolved' = UpdateUnresolved(unresolved, nf_names,
                                    ResolvedThisBatch(nf_names, results))
  /\ nf_names' = <<>> /\ retry_set' = <<>> /\ sub_idx' = 0
  /\ batch_idx' = batch_idx + 1
  /\ pc' = "batch"
  /\ retry_keyed' = retry_keyed \cup
       {n \in Range(nf_names) : HasSep(n) /\ Lower(n) \in ResultsLower(results)}
  /\ UNCHANGED <<providerVars, prog, network, exit_status, err, inputVars, results, sent, mainVars, caller,
                 payload, attempt, resp, seenVars, slept, data, streamVars>>

(***************************************************************************)
(* fetch_all's return and the rest of main.                                 *)
(***************************************************************************)
\* The final value of ordered_cards, seen_ids and mapped_names in main
MainLoop(nms, res, srt) ==
  Reassemble([ordered_cards |-> <<>>, seen_ids |-> {}, mapped_names |-> {}],
             input_sequence(nms, res, srt), LowerMap(res))

\* combined_unresolved of main, lines 220-225
CombinedUnresolved(unres_names, nms, mapped) ==
  DedupKeepOrder(<<>>, unres_names \o OrderingUnresolved(nms, mapped))

\* fetch_all, lines 145-148, and main, lines 183-231
FinishMain ==
  /\ prog = "fetch" /\ pc = "batch"
  /\ batch_idx > Len(chunked(names, BATCH_LIMIT))
  /\ unresolved_names' \in SortedSetByLower(unresolved)
  /\ LET final == MainLoop(names, results, sort)
     IN  /\ ordered_cards' = final.ordered_cards
         /\ mapped_names' = final.mapped_names
         /\ combined_unresolved' =
              CombinedUnresolved(unresolved_names', names, final.mapped_names)
  /\ pc' = "done" /\ exit_status' = 0
  /\ UNCHANGED <<providerVars, prog, network, err, inputVars, fetchAllVars, sent, caller, payload, attempt,
                 resp, seenVars, slept, data, streamVars>>

(***************************************************************************)
(* scryfall.py: stream_cards and its consumer.                              *)
(***************************************************************************)
\* A record of page i of the search results
StreamCard(i, j) == [id |-> 10 * i + j, name |-> <<80, 48 + i, 48 + j>>]

\* The URL of page i of the search results, for i > 1
PageUrl(i) == API_SEARCH \o "?page=" \o ToString(i)

\* The k pages of a search, sizes[i] being the number of records of page i:
\* has_more is true on all pages but the last, and next_page is then the URL
\* of the following page
SearchPages(k, sizes) ==
  [i \in 1..k |->
     [data |-> [j \in 1..sizes[i] |-> StreamCard(i, j)],
      has_more |-> i < k,
      next_page |-> IF i < k THEN PageUrl(i + 1) ELSE ""]]

\* The same search when the provider names the search endpoint itself as the
\* next_page of its first page
AliasedPages(k, sizes) ==
  [SearchPages(k, sizes) EXCEPT ![1].next_page = API_SEARCH]

\* The page the provider serves at a URL: page i at PageUrl(i); at the search
\* endpoint the first page to the first page fetch, and the page that follows
\* the first one once the endpoint has been handed out as a next_page
Served(u) ==
  IF u = API_SEARCH THEN (IF Len(fetched) <= 1 THEN 1 ELSE 2)
  ELSE CHOOSE i \in 1..Len(pages) : PageUrl(i) = u

InitStream ==
  /\ prog = "stream" /\ pc = "while" /\ exit_status = -1 /\ err = "none"
  /\ \E k \in 1..MaxPages : \E sizes \in [1..k -> 0..MaxPageSize] :
       \/ pages = SearchPages(k, sizes) /\ network = "reliable"
       \/ /\ pages = SearchPages(k, sizes) /\ network = "faulty"
          /\ k <= MaxFaultyPages /\ \A i \in 1..k : sizes[i] <= 1
       \/ pages = AliasedPages(k, sizes) /\ network = "reliable" /\ k >= 2
  /\ url = API_SEARCH
  /\ page = EmptyPage /\ page_bound = FALSE
  /\ yielded = <<>> /\ fetched = <<>> /\ stale_rounds = 0
  /\ lines = <<>> /\ names = <<>> /\ sort = "input"
  /\ results = <<>> /\ unresolved = {} /\ batch_idx = 0
  /\ nf_names = <<>> /\ retry_set = <<>> /\ sub_idx = 0 /\ sent = <<>>
  /\ retry_keyed = {} /\ hit = {} /\ missed = {}
  /\ ordered_cards = <<>> /\ mapped_names = {}
  /\ unresolved_names = <<>> /\ combined_unresolved = <<>>
  /\ CallIdle

fetchVars ==
  <<inputVars, fetchAllVars, sent, mainVars, caller, payload, data>>

\* lines 26-27: while url: the attempt loop of the next page fetch starts;
\* without a url the generator is exhausted and main returns
StreamLoop ==
  /\ prog = "stream" /\ pc = "while"
  /\ IF url # ""
       THEN /\ pc' = "get"
            /\ fetched' = Append(fetched, [url |-> url, params |-> url = API_SEARCH])
            /\ exit_status' = exit_status
       ELSE /\ pc' = "done" /\ exit_status' = 0
            /\ fetched' = fetched
  /\ UNCHANGED <<providerVars, prog, network, err, fetchVars, attempt, resp, seenVars, slept, pages,
                 url, page, page_bound, yielded, stale_rounds>>

\* lines 52-55: except requests.RequestException
StreamOnRequestException(exc) ==
  IF attempt = STREAM_LAST_ATTEMPT
    THEN /\ pc' = "crashed" /\ err' = exc /\ exit_status' = 1
         /\ UNCHANGED <<attempt, slept>>
    ELSE /\ slept' = StreamBackoff(attempt)
         /\ attempt' = attempt + 1
         /\ UNCHANGED <<pc, err, exit_status>>

\* lines 29-36: the response has status 429
Get429 ==
  /\ prog = "stream" /\ pc = "get" /\ network = "faulty"
  /\ reqs' = reqs + 1
  /\ resp' = [status |-> 429, body |-> EmptyPage]
  /\ rate_seen' = rate_seen + 1
  /\ \E h \in RetryAfterHeaders :
       IF ~IsInt(HeaderText(h))
         THEN \* int() raises ValueError, which no handler catches
              /\ pc' = "crashed" /\ err' = "ValueError" /\ exit_status' = 1
              /\ UNCHANGED <<attempt, slept, stale_rounds>>
         ELSE /\ slept' = RateLimitPause(h)
              /\ IF attempt = STREAM_ATTEMPTS - 1
                   THEN \* continue ends the loop without break: line 57
                        /\ page_bound => stale_rounds < MaxStale
                        /\ stale_rounds' = IF page_bound THEN stale_rounds + 1
                                           ELSE stale_rounds
                        /\ pc' = "page"
                        /\ UNCHANGED <<attempt, err, exit_status>>
                   ELSE /\ attempt' = attempt + 1
                        /\ UNCHANGED <<pc, err, exit_status, stale_rounds>>
  /\ UNCHANGED <<providerVars, prog, network, fetchVars, net_seen, err_seen, pages, url, page,
                 page_bound, yielded, fetched>>

\* lines 37-49 and 52-55: a status >= 400 other than 429; raise_for_status
\* raises HTTPError, a RequestException
GetError ==
  /\ prog = "stream" /\ pc = "get" /\ network = "faulty"
  /\ reqs' = reqs + 1
  /\ \E st \in ErrorStatuses : resp' = [status |-> st, body |-> EmptyPage]
  /\ err_seen' = err_seen + 1
  /\ StreamOnRequestException("HTTPError")
  /\ UNCHANGED <<providerVars, prog, network, fetchVars, rate_seen, net_seen, pages, url, page,
                 page_bound, yielded, fetched, stale_rounds>>

\* lines 29-32 and 52-55: session.get raises a RequestException
GetNetFail ==
  /\ prog = "stream" /\ pc = "get" /\ network = "faulty"
  /\ reqs' = reqs + 1
  /\ resp' = [status |-> -1, body |-> EmptyPage]
  /\ net_seen' = net_seen + 1
  /\ StreamOnRequestException("ConnectionError")
  /\ UNCHANGED <<providerVars, prog, network, fetchVars, rate_seen, err_seen, pages, url, page,
                 page_bound, yielded, fetched, stale_rounds>>

\* lines 29-32 and 50-51: a status below 400; page = resp.json(); break
GetOk ==
  /\ prog = "stream" /\ pc = "get"
  /\ reqs' = reqs + 1
  /\ resp' = [status |-> 200, body |-> pages[Served(url)]]
  /\ page' = pages[Served(url)]
  /\ page_bound' = TRUE
  /\ pc' = "page"
  /\ UNCHANGED <<providerVars, prog, network, exit_status, err, fetchVars, attempt, rate_seen,
                 net_seen, err_seen, slept, pages, url, yielded, fetched, stale_rounds>>

\* line 60: page.get("next_page") if page.get("has_more") else None
\* A generator that stops after its first page
NoNextUrl(pg) == ""

NextUrl(pg) == IF pg.has_more THEN pg.next_page ELSE ""

\* lines 57-60: the records of page are yielded and url is set for the next
\* page; reading page while it is unbound raises UnboundLocalError
YieldPage ==
  /\ prog = "stream" /\ pc = "page"
  /\ IF page_bound
       THEN /\ yielded' = yielded \o page.data
            /\ url' = NextUrl(page)
            /\ pc' = "while"
            /\ attempt' = 0 /\ resp' = NoResp /\ slept' = 0
            /\ reqs' = 0 /\ rate_seen' = 0 /\ net_seen' = 0 /\ err_seen' = 0
            /\ UNCHANGED <<err, exit_status>>
       ELSE /\ pc' = "crashed" /\ err' = "UnboundLocalError" /\ exit_status' = 1
            /\ UNCHANGED <<yielded, url, attempt, resp, slept, seenVars>>
  /\ UNCHANGED <<providerVars, prog, network, fetchVars, pages, page, page_bound, fetched,
                 stale_rounds>>

(***************************************************************************)
(* The specification.                                                       *)
(***************************************************************************)
Init == InitFetch \/ InitStream

Next ==
  \/ ReadNames \/ StartBatch
  \/ Post429 \/ PostError \/ PostNetFail \/ PostOk
  \/ MergePrimary \/ StartRetry \/ MergeRetry \/ FinishRetry
  \/ FinishMain
  \/ StreamLoop \/ Get429 \/ GetError \/ GetNetFail \/ GetOk \/ YieldPage

Spec == Init /\ [][Next]_vars

(***************************************************************************)
(* Properties of one call of fetch_batch and of one page fetch of           *)
(* stream_cards.                                                            *)
(***************************************************************************)
\* C1: a 429 response never counts against the attempt budget and is never
\* fatal: a call that has met nothing but 429 responses (with a Retry-After
\* value that parses) and at most 4 network failures has not ended without
\* its 200 response.
C1_RateLimitNeverFatal ==
  (err_seen = 0 /\ net_seen <= 4 /\ err # "ValueError") =>
    /\ pc \notin {"exit", "crashed"}
    /\ pc = "page" => resp.status = 200

\* C2: a response with a status >= 400 other than 429 ends the call: it is
\* the only such response of the call, no later response follows it, and
\* the call returns nothing.
C2_ErrorStatusIsTerminal ==
  err_seen > 0 =>
    /\ err_seen = 1
    /\ resp.status \in ErrorStatuses
    /\ pc \notin {"returned", "page"}

\* C3: with network failures only, the fifth request is the last: after 4
\* failures and a successful fifth request the call returns that response's
\* body; after 5 failures fetch_batch has ended the process with exit
\* status 3 and stream_cards has raised the failure, and there is no sixth
\* request; with fewer failures the call has not failed.
C3_RetryBoundary ==
  (rate_seen = 0 /\ err_seen = 0) =>
    /\ net_seen <= 5 /\ reqs <= 5
    /\ net_seen <= 4 => pc \notin {"exit", "crashed"}
    /\ (net_seen = 4 /\ resp.status = 200) =>
         /\ reqs = 5
         /\ IF prog = "fetch"
              THEN pc = "returned" /\ data = resp.body
              ELSE pc = "page" /\ page_bound /\ page = resp.body
    /\ net_seen = 5 =>
         /\ reqs = 5
         /\ IF prog = "fetch"
              THEN pc = "exit" /\ exit_status = 3
              ELSE pc = "crashed" /\ err = "ConnectionError"

\* fetch_batch has returned the body of its fifth request after 4 network
\* failures
C3_Witness ==
  /\ prog = "fetch" /\ pc = "returned"
  /\ rate_seen = 0 /\ err_seen = 0 /\ net_seen = 4 /\ reqs = 5
  /\ resp.status = 200 /\ data.data # <<>>

(***************************************************************************)
(* Properties of a finished run of fetch_cards_by_name.py.                  *)
(***************************************************************************)
Finished == prog = "fetch" /\ pc = "done" /\ names # <<>>

\* C4: the names classified as mapped and the names of the final report
\* together are exactly the de-duplicated input names.
C4_EveryNameAccounted ==
  Finished => mapped_names \cup Range(combined_unresolved) = Range(names)

\* C5: no name is both classified as mapped and in the final report.
C5_MappedNotReported ==
  Finished => mapped_names \cap Range(combined_unresolved) = {}

\* A key corresponds to an input name when they are equal without regard to
\* case, or the input name is composite and the key starts, without regard
\* to case, with the input's front face followed by " // "
KeyCorresponds(key, n) ==
  \/ Lower(key) = Lower(n)
  \/ HasSep(n) /\ StartsWith(Lower(key), Lower(SplitFirst(n)) \o SEP)

\* C6: every key of the mapping fetch_all returns corresponds to an input
\* name.
C6_EveryKeyHasInput ==
  Finished =>
    \A i \in 1..Len(results) :
      \E n \in Range(names) : KeyCorresponds(results[i].name, n)

\* C7: no two emitted records have the same id, and of two input names that
\* resolve to the same record, both the one that emitted it and the one
\* that met it already emitted are classified as mapped.
C7_OneRecordPerId ==
  Finished =>
    /\ \A i, j \in 1..Len(ordered_cards) :
         ordered_cards[i].id = ordered_cards[j].id => i = j
    /\ LET lower_map == LowerMap(results)
           r == [n \in Range(names) |-> resolve_input_name(n, lower_map)]
       IN  \A n, m \in Range(names) :
             (n # m /\ r[n].found /\ r[m].found /\ r[n].card.id = r[m].card.id)
               => n \in mapped_names /\ m \in mapped_names

PrimaryRequests == SelectSeq(sent, LAMBDA r : r.kind = "primary")

\* C8: the primary requests carry the input names in contiguous slices of 75
\* in input order, the last one the remainder; a finished run has sent
\* ceil(n / 75) of them, and without faults each is one POST.
C8_PrimaryBatches ==
  prog = "fetch" =>
    LET n == Len(names)
        prim == PrimaryRequests
    IN  /\ \A i \in 1..Len(prim) :
             /\ Len(prim[i].ids) \in 1..75
             /\ prim[i].ids =
                  SubSeq(names, 75 * (i - 1) + 1, IF 75 * i < n THEN 75 * i ELSE n)
        /\ pc = "done" => 75 * Len(prim) >= n /\ 75 * (Len(prim) - 1) < n
        /\ (network = "reliable" /\ pc = "returned") => reqs = 1

\* A finished run over 76 names has sent 75 and then 1
C8_Witness ==
  /\ prog = "fetch" /\ pc = "done" /\ network = "reliable"
  /\ Len(names) = 76
  /\ Len(PrimaryRequests) = 2
  /\ Len(PrimaryRequests[1].ids) = 75 /\ Len(PrimaryRequests[2].ids) = 1

\* C9: a composite name reported not found whose own name is a key of the
\* mapping after the retries of its batch is classified as mapped and is in
\* neither the unresolved list of fetch_all nor the final report.
C9_RetryResolvedIsMapped ==
  Finished =>
    \A n \in retry_keyed :
      /\ n \in mapped_names
      /\ n \notin Range(unresolved_names)
      /\ n \notin Range(combined_unresolved)

(***************************************************************************)
(* Properties of stream_cards.                                              *)
(***************************************************************************)
RECURSIVE AllRecords(_)
AllRecords(pgs) ==
  IF pgs = <<>> THEN <<>> ELSE Head(pgs).data \o AllRecords(Tail(pgs))

\* C10: without faults a search of k pages is fetched with k requests, the
\* first at the search endpoint and each further one at the next_page of
\* the page before; the records are yielded page by page in order, and
\* nothing is fetched after the page without has_more.
C10_Pagination ==
  (prog = "stream" /\ network = "reliable") =>
    /\ Len(fetched) <= Len(pages)
    /\ \A i \in 1..Len(fetched) :
         fetched[i].url = IF i = 1 THEN API_SEARCH ELSE pages[i - 1].next_page
    /\ pc = "page" => reqs = 1
    /\ pc = "done" =>
         /\ Len(fetched) = Len(pages)
         /\ yielded = AllRecords(pages)

\* A search of 3 pages has been consumed to its end
C10_Witness ==
  /\ prog = "stream" /\ network = "reliable" /\ pc = "done"
  /\ Len(pages) = 3 /\ Len(fetched) = 3
  /\ Len(pages[1].data) = 2 /\ Len(pages[3].data) = 1 /\ Len(yielded) >= 3

(***************************************************************************)
(* Properties of the requests of fetch_all.                                 *)
(***************************************************************************)
\* The number of primary requests among the first i requests sent
PrimariesUpTo(i) == Cardinality({j \in 1..i : sent[j].kind = "primary"})

\* C11: the primary requests go out in the order of the batches of the
\* input; a front-face retry request belongs to the batch of the latest
\* primary request, so it follows the primary request of its batch and
\* precedes the primary request of the next batch; and a request is sent
\* only when no call of fetch_batch is in progress, so at most one request
\* is outstanding.
C11_RequestOrder ==
  prog = "fetch" =>
    /\ \A i \in 1..Len(sent) :
         LET before == PrimariesUpTo(i - 1)
             n == Len(names)
         IN  IF sent[i].kind = "primary"
               THEN /\ sent[i].batch = before + 1
                    /\ sent[i].ids =
                         SubSeq(names, 75 * before + 1,
                                IF 75 * (before + 1) < n THEN 75 * (before + 1) ELSE n)
               ELSE before >= 1 /\ sent[i].batch = before
    /\ pc \in {"post", "returned"} =>
         /\ sent # <<>>
         /\ sent[Len(sent)].ids = payload /\ sent[Len(sent)].kind = caller
    /\ pc \in {"main", "batch", "retry", "done"} => caller = "none" /\ reqs = 0

\* A finished run that sent the primary request of batch 1, a front-face
\* retry of batch 1 and then the primary request of batch 2
C11_Witness ==
  /\ prog = "fetch" /\ pc = "done" /\ Len(sent) = 3
  /\ sent[1].kind = "primary" /\ sent[1].batch = 1
  /\ sent[2].kind = "retry" /\ sent[2].batch = 1
  /\ sent[3].kind = "primary" /\ sent[3].batch = 2


(***************************************************************************)
(* The pause after a 429 response.                                          *)
(***************************************************************************)
\* C12: the first 429 response of a call, whatever its Retry-After header
\* (absent, unparseable, zero, negative), does not make the call fail: the
\* call has paused for at least 1 second and goes on to retry.
C12_RetryAfterNeverFails ==
  (resp.status = 429 /\ rate_seen = 1 /\ net_seen = 0 /\ err_seen = 0) =>
    /\ pc \notin {"crashed", "exit"}
    /\ slept >= 1000
    /\ attempt = 1

(***************************************************************************)
(* The identifiers fetch_all sends.                                         *)
(***************************************************************************)
\* C13: every identifier of a primary request is an input name, and every
\* identifier of a retry request is the non-empty text before the first
\* " // " of a name reported not found in the current batch, never the text
\* after it.
C13_OnlyFrontFacesRetried ==
  (prog = "fetch" /\ caller # "none") =>
    \A i \in 1..Len(payload) :
      IF caller = "primary"
        THEN payload[i] \in Range(names)
        ELSE /\ payload[i] # <<>> /\ ~HasSep(payload[i])
             /\ \E n \in Range(nf_names) : StartsWith(n, payload[i] \o SEP)
             /\ \A n \in Range(nf_names) : HasSep(n) => payload[i] # BackFace(n)

\* A retry request for the front faces of two names reported not found has
\* been answered
C13_Witness ==
  /\ prog = "fetch" /\ caller = "retry" /\ pc = "returned"
  /\ Len(nf_names) = 2 /\ Len(payload) = 2

\* C14: the identifiers of a retry request never hold two names that are
\* equal when compared without regard to case.
C14_RetryCandidatesDistinct ==
  (prog = "fetch" /\ caller = "retry") =>
    \A i, j \in 1..Len(payload) :
      Lower(payload[i]) = Lower(payload[j]) => i = j

(***************************************************************************)
(* Properties of the reassembly of the output in main.                      *)
(***************************************************************************)
\* The other value of --sort
OtherSort == IF sort = "input" THEN "alpha" ELSE "input"

\* C15: a finished run has classified the same names as mapped, emitted the
\* same set of records and reported the same names as the other value of
\* --sort does for the same input names and provider responses.
C15_SortChangesOrderOnly ==
  Finished =>
    LET other == MainLoop(names, results, OtherSort)
    IN  /\ mapped_names = other.mapped_names
        /\ Range(ordered_cards) = Range(other.ordered_cards)
        /\ combined_unresolved =
             CombinedUnresolved(unresolved_names, names, other.mapped_names)

\* The ids of the records emitted
EmittedIds == {ordered_cards[p].id : p \in 1..Len(ordered_cards)}

\* C16: with --sort input, when the only request of the run was answered
\* with a record for every input name, every input name has its record in
\* the output and the final report is empty; and the records are emitted in
\* the order of the first input names that match them.
C16_InputOrderKept ==
  (Finished /\ sort = "input") =>
    /\ (Len(sent) = 1 /\ unresolved = {}) =>
         /\ combined_unresolved = <<>>
         /\ EmittedIds = {results[i].id : i \in 1..Len(results)}
         /\ \A i \in 1..Len(names) :
              \E p \in 1..Len(ordered_cards) : Matches(ordered_cards[p], names[i])
    /\ LET lower_map == LowerMap(results)
           rid == [i \in 1..Len(names) |->
                     LET r == resolve_input_name(names[i], lower_map)
                     IN  IF r.found THEN r.card.id ELSE 0]
           first == [p \in 1..Len(ordered_cards) |->
                       LET at == {i \in 1..Len(names) : rid[i] = ordered_cards[p].id}
                       IN  IF at = {} THEN 0 ELSE CHOOSE i \in at : \A j \in at : i <= j]
       IN  IF Computed(rid) /\ Computed(first)
             THEN /\ \A p \in 1..Len(ordered_cards) : first[p] > 0
                  /\ \A p \in 1..(Len(ordered_cards) - 1) : first[p] < first[p + 1]
             ELSE FALSE

(***************************************************************************)
(* Names the provider does not know.                                        *)
(***************************************************************************)
\* The provider gave one answer for each identifier of the run, compared
\* without regard to case
ProviderConsistent == hit \cap missed = {}

\* The input names without " // " that the provider reported not found
PlainNotFound == {n \in Range(names) : ~HasSep(n) /\ Lower(n) \in missed}

\* C17: in a finished run against a provider that does not contradict itself,
\* every input name without " // " that was reported not found is in the
\* unresolved list of fetch_all, is no key of the mapping and is in the
\* final report, and the exit status is 0; and when no composite name was
\* reported not found, the run sent nothing but its primary requests.
C17_NotFoundIsReported ==
  (Finished /\ ProviderConsistent) =>
    /\ exit_status = 0
    /\ \A n \in PlainNotFound :
         /\ n \in unresolved /\ n \in Range(unresolved_names)
         /\ Lower(n) \notin ResultsLower(results)
         /\ n \in Range(combined_unresolved)
    /\ (\A n \in Range(names) : HasSep(n) => Lower(n) \notin missed) =>
         \A i \in 1..Len(sent) : sent[i].kind = "primary"

\* A finished run in which a name without " // " was reported not found next
\* to a name that was found
C17_Witness ==
  /\ Finished /\ ProviderConsistent /\ exit_status = 0
  /\ PlainNotFound # {} /\ hit # {}
  /\ \A i \in 1..Len(sent) : sent[i].kind = "primary"

(***************************************************************************)
(* Further properties of stream_cards.                                      *)
(***************************************************************************)
\* C18: the first page fetch carries the query parameters and no later one
\* does, whatever the URL it goes to.
C18_ParamsOnFirstFetchOnly ==
  prog = "stream" =>
    \A i \in 1..Len(fetched) : fetched[i].params <=> i = 1

\* C19: what stream_cards has yielded is a prefix of the records of the
\* pages in page order, so no page is yielded twice; and the generator
\* never stands before its yield loop with a page other than the body of
\* a 200 response it has just received.
C19_YieldsFetchedPagesOnly ==
  prog = "stream" =>
    /\ yielded = SubSeq(AllRecords(pages), 1, Len(yielded))
    /\ (pc = "page" /\ page_bound) => resp.status = 200 /\ page = resp.body

\* C20: a call of fetch_batch has issued at most 5 requests, has ended in no
\* other way than by returning the body of a response with a status below
\* 400, by exit status 3 after a network failure, or by raising an error of
\* a response, and has never reached the line after the loop.
C20_FetchBatchOutcomes ==
  prog = "fetch" =>
    /\ reqs <= 5
    /\ pc = "returned" => resp.status = 200 /\ data = resp.body
    /\ pc = "exit" => exit_status = 3 /\ (net_seen > 0 \/ err_seen > 0)
    /\ err # "RuntimeError"

=============================================================================
